---- MODULE Spec2Model ----
(***************************************************************************)
(* Advent of Code 2020, day 3: the toboggan map (src/day_03/src/main.rs).  *)
(* TobogganMap is a grid of 0/1 cells built from text, with a cursor that  *)
(* move_by steps (wrapping on x, bounded on y) and reset_position returns  *)
(* to the origin; main runs five sweeps and multiplies their tree counts.  *)
(*                                                                         *)
(* Rust indexes from 0 and TLA+ sequences from 1: the cursor keeps the     *)
(* Rust coordinates, and Lookup adds 1 when it reads the grid.  Characters *)
(* are one-character strings, a line is a sequence of characters and the   *)
(* input text is the sequence of its lines (what str::lines() yields).     *)
(*                                                                         *)
(* The other days follow, each a program of its own with its own           *)
(* variables and specification: day 5 (string_to_planeseat and the seat    *)
(* scan of main), day 2 (PassInstance and count_valid_passwords), day 1    *)
(* (day_01) and day 4 (Passport and parse_string_to_passports).  A         *)
(* specification leaves the variables of the other days at their idle      *)
(* values.                                                                 *)
(***************************************************************************)
EXTENDS Integers, Sequences, FiniteSets, TLC

VARIABLES
    input,              \* the text given to from_string_map, as its lines
    map,                \* TobogganMap.map: rows of 0/1 cells
    pos,                \* TobogganMap.pos: [x, y]
    max_x,              \* TobogganMap.max_x
    max_y,              \* TobogganMap.max_y
    result,             \* what the last call returned: none, ok(val), err, panic
    last,               \* the last call made on the engine and the cursor before it
    pc,                 \* where the driver of the engine is
    sweep,              \* main: which of the five loops is running (1..5)
    moves,              \* main: successful moves of the running loop
    encountered_trees,  \* main: encountered_trees
    all_tree_counts,    \* main: all_tree_counts
    idx,                \* main: position of the product loop's iterator
    overflow_checks,    \* the build: TRUE panics on integer overflow, FALSE wraps
    \* day 5 (src/day_05/src/main.rs)
    seat_code,          \* the &str given to string_to_planeseat
    decoded,            \* the Option<PlaneSeat> it returned
    input_data,         \* main: the lines of the input text
    seat_list,          \* main: seat_list
    scanned,            \* main: places the last loop has taken from seat_list
    prev_place,         \* main: prev_place
    my_place,           \* main: my_place
    \* day 2 (src/day_02/src/main.rs)
    pass_lines,         \* the Vec<String> get_input returns: the trimmed lines
    output,             \* parse_input: output
    valid_count,        \* main: valid_count
    \* day 1 (src/day_01/src/main.rs)
    data,               \* the Vec<u32> get_input returns
    val1_at,            \* day_01: place of the outer loop's iterator
    val2_at,            \* day_01: place of the inner loop's iterator
    found,              \* what day_01 returned
    answer,             \* main: answer
    \* day 4 (src/day_04/src/main.rs)
    batch,              \* the text get_input returns, as its lines
    blocks,             \* parse_string_to_passports: what re.split yields
    passports           \* parse_string_to_passports: output

day03vars == << input, map, pos, max_x, max_y, result, last, sweep, moves,
                encountered_trees, all_tree_counts, idx >>
day05vars == << seat_code, decoded, input_data, seat_list, scanned, prev_place,
                my_place >>
day02vars == << pass_lines, output, valid_count >>

day01vars == << data, val1_at, val2_at, found, answer >>
day04vars == << batch, blocks, passports >>

vars == << pc, overflow_checks, day03vars, day05vars, day02vars, day01vars,
           day04vars >>

engine == << input, map, max_x, max_y >>
mainvars == << sweep, moves, encountered_trees, all_tree_counts, idx >>

\* PlaneSeat::default()
DefaultSeat == [row |-> 0, seat |-> 0, id |-> 0]

NotDecoded == [tag |-> "pending", row |-> 0, seat |-> 0, id |-> 0]

\* the variables of the days a specification does not run, and their values
Day03Idle ==
    /\ input = << >>
    /\ map = << >>
    /\ pos = [x |-> 0, y |-> 0]
    /\ max_x = 0
    /\ max_y = 0
    /\ result = [tag |-> "none", val |-> 0]
    /\ last = [op |-> "none", x |-> 0, y |-> 0, x0 |-> 0, y0 |-> 0, first |-> FALSE]
    /\ sweep = 0
    /\ moves = 0
    /\ encountered_trees = 0
    /\ all_tree_counts = << >>
    /\ idx = 0

Day05Idle ==
    /\ seat_code = << >>
    /\ decoded = NotDecoded
    /\ input_data = << >>
    /\ seat_list = << >>
    /\ scanned = 0
    /\ prev_place = DefaultSeat
    /\ my_place = DefaultSeat

Day02Idle ==
    /\ pass_lines = << >>
    /\ output = << >>
    /\ valid_count = 0

\* a u32 too wide for one number of the model is kept as two halves:
\* U32(hi, lo) is hi * 2^16 + lo
U32(hi, lo) == << hi, lo >>

NotReturned == [tag |-> "pending", val1 |-> U32(0, 0), val2 |-> U32(0, 0)]

Day01Idle ==
    /\ data = << >>
    /\ val1_at = 0
    /\ val2_at = 0
    /\ found = NotReturned
    /\ answer = U32(0, 0)

Day04Idle ==
    /\ batch = << >>
    /\ blocks = << >>
    /\ passports = << >>

notday03 == << overflow_checks, day05vars, day02vars, day01vars, day04vars >>
NotDay03Idle ==
    overflow_checks = TRUE /\ Day05Idle /\ Day02Idle /\ Day01Idle /\ Day04Idle
notday05 == << day03vars, day02vars, day01vars, day04vars >>
NotDay05Idle == Day03Idle /\ Day02Idle /\ Day01Idle /\ Day04Idle
notday02 == << day03vars, day05vars, day01vars, day04vars >>
NotDay02Idle == Day03Idle /\ Day05Idle /\ Day01Idle /\ Day04Idle
notday01 == << day03vars, day05vars, day02vars, day04vars >>
NotDay01Idle == Day03Idle /\ Day05Idle /\ Day02Idle /\ Day04Idle
notday04 == << overflow_checks, day03vars, day05vars, day02vars, day01vars >>
NotDay04Idle ==
    overflow_checks = TRUE /\ Day03Idle /\ Day05Idle /\ Day02Idle /\ Day01Idle

----------------------------------------------------------------------------
(* Bounds of the model. *)

\* lines of a text enumerated character by character
MaxLines == 2
\* characters of such a text, all lines together
MaxChars == 3
\* rows of the small rectangular grids
MaxRows == 2
\* columns of the small rectangular grids
MaxCols == 3
\* largest |dx| a free call of move_by is given (besides the grid's width)
MaxDx == 3
\* largest |dy| a free call of move_by is given
MaxDy == 1
\* free calls are followed while |pos.x| stays within this
MaxAbsX == 4
\* width of the wide grids: no slope of main is larger
WideCols == 7
\* rows of the wide grids
WideRows == 3

----------------------------------------------------------------------------
(* Input texts. *)

Tree == "#"
Open == "."
Space == " "

SeqsUpTo(S, n) == UNION { [1..k -> S] : k \in 0..n }

\* the texts of exactly k lines with at most n characters in all
RECURSIVE TextsOf(_, _)
TextsOf(k, n) ==
    IF k = 0 THEN { << >> }
    ELSE UNION { { << line >> \o t : t \in TextsOf(k - 1, n - Len(line)) } :
                 line \in SeqsUpTo({Tree, Open, Space}, n) }

\* every text of at most MaxLines lines and MaxChars characters: blank lines,
\* lines of different lengths, whitespace before, after and inside a line
TextInputs == UNION { TextsOf(k, MaxChars) : k \in 0..MaxLines }

TreeRow(w) == [c \in 1..w |-> Tree]
OpenRow(w) == [c \in 1..w |-> Open]
OddRow(w) == [c \in 1..w |-> IF c % 2 = 0 THEN Tree ELSE Open]
EvenRow(w) == [c \in 1..w |-> IF c % 2 = 1 THEN Tree ELSE Open]

\* rectangular grids of at most MaxRows rows and MaxCols columns
RectInputs ==
    UNION { [1..h -> {TreeRow(w), OddRow(w)}] : h \in 1..MaxRows, w \in 1..MaxCols }

\* rectangular grids WideCols wide: wide enough for every slope of main
WideInputs ==
    UNION { [1..h -> {TreeRow(WideCols), OpenRow(WideCols), OddRow(WideCols),
                      EvenRow(WideCols)}] : h \in 1..WideRows }

Indent == << " ", " ", " ", " ", " ", " ", " ", " " >>

\* get_input_test: the hard-coded sample; every line but the first is indented
SampleInput ==
    << 
       << ".", ".", "#", "#", ".", ".", ".", ".", ".", ".", "." >>,
       Indent \o << "#", ".", ".", ".", "#", ".", ".", ".", "#", ".", "." >>,
       Indent \o << ".", "#", ".", ".", ".", ".", "#", ".", ".", "#", "." >>,
       Indent \o << ".", ".", "#", ".", "#", ".", ".", ".", "#", ".", "#" >>,
       Indent \o << ".", "#", ".", ".", ".", "#", "#", ".", ".", "#", "." >>,
       Indent \o << ".", ".", "#", ".", "#", "#", ".", ".", ".", ".", "." >>,
       Indent \o << ".", "#", ".", "#", ".", "#", ".", ".", ".", ".", "#" >>,
       Indent \o << ".", "#", ".", ".", ".", ".", ".", ".", ".", ".", "#" >>,
       Indent \o << "#", ".", "#", "#", ".", ".", ".", "#", ".", ".", "." >>,
       Indent \o << "#", ".", ".", ".", "#", "#", ".", ".", ".", ".", "#" >>,
       Indent \o << ".", "#", ".", ".", "#", ".", ".", ".", "#", ".", "#" >>
    >>


\* texts the free calls run on, and the texts main runs on
\* grids whose two rows differ in width
JaggedInputs ==
    { << OddRow(w), TreeRow(v) >> : w \in 0..MaxCols, v \in 0..MaxCols } \ RectInputs

FreeInputs == RectInputs \cup JaggedInputs \cup { << >> }
BuildInputs == TextInputs \cup {SampleInput}
MainInputs ==
    TextInputs \cup RectInputs \cup JaggedInputs \cup WideInputs \cup {SampleInput}

----------------------------------------------------------------------------
(* TobogganMap::from_string_map *)

\* char::is_whitespace, on the characters of the model
IsWhitespace(col) == col = Space

RECURSIVE TrimStart(_)
TrimStart(row) ==
    IF row # << >> /\ IsWhitespace(Head(row)) THEN TrimStart(Tail(row)) ELSE row

RECURSIVE TrimEnd(_)
TrimEnd(row) ==
    IF row # << >> /\ IsWhitespace(row[Len(row)])
    THEN TrimEnd(SubSeq(row, 1, Len(row) - 1))
    ELSE row

TrimIdentity(row) == row

\* row.trim()
Trim(row) == TrimEnd(TrimStart(row))

\* match col { '#' => 1, _ => 0 }
CellOf(col) == IF col = Tree THEN 1 ELSE 0

\* the inner loop: push a cell for every character, keep the largest colnum
RECURSIVE ScanRow(_, _, _, _)
ScanRow(chars, colnum, cells, max_col) ==
    IF colnum >= Len(chars)
    THEN [cells |-> cells, max_col |-> max_col]
    ELSE ScanRow(chars, colnum + 1, Append(cells, CellOf(chars[colnum + 1])),
                 IF colnum > max_col THEN colnum ELSE max_col)

\* the outer loop: push a row for every line, keep the largest rownum
RECURSIVE ScanRows(_, _, _, _, _)
ScanRows(lines, rownum, m, max_row, max_col) ==
    IF rownum >= Len(lines)
    THEN [map |-> m, max_row |-> max_row, max_col |-> max_col]
    ELSE LET r == ScanRow(Trim(lines[rownum + 1]), 0, << >>, max_col)
         IN  ScanRows(lines, rownum + 1, Append(m, r.cells),
                      IF rownum > max_row THEN rownum ELSE max_row, r.max_col)

from_string_map(mapstr) ==
    LET s == ScanRows(mapstr, 0, << >>, 0, 0)
    IN  [map |-> s.map, pos |-> [x |-> 0, y |-> 0],
         max_x |-> s.max_col, max_y |-> s.max_row]

----------------------------------------------------------------------------
(* TobogganMap::move_by and TobogganMap::reset_position *)

None == [tag |-> "none", val |-> 0]
Ok(val) == [tag |-> "ok", val |-> val]
Err == [tag |-> "err", val |-> 0]
Panic == [tag |-> "panic", val |-> 0]

\* self.map[self.pos.y as usize][self.pos.x as usize]: an index outside the
\* row or the grid panics (a negative one becomes a huge usize)
Lookup(m, x, y) ==
    IF y >= 0 /\ y < Len(m) /\ x >= 0 /\ x < Len(m[y + 1])
    THEN Ok(m[y + 1][x + 1])
    ELSE Panic

MoveXWrapShort(px, x, mx) ==
    IF px + x > mx THEN px + (x - mx)
    ELSE IF px + x < 0 THEN px + (x + mx)
    ELSE px + x

\* the x part of move_by: one wrap to the right, one to the left, or none
MoveX(px, x, mx) ==
    IF px + x > mx THEN px + (x - mx - 1)
    ELSE IF px + x < 0 THEN px + (x + mx + 1)
    ELSE px + x

\* move_by(x, y) on the engine (m, p, mx, my): the cursor and the value after it.
\* x is assigned before y is checked, so a failed call keeps the new x.
move_by(m, p, mx, my, x, y) ==
    LET nx == MoveX(p.x, x, mx)
    IN  IF p.y + y > my \/ p.y + y < 0
        THEN [pos |-> [x |-> nx, y |-> p.y], result |-> Err]
        ELSE [pos |-> [x |-> nx, y |-> p.y + y], result |-> Lookup(m, nx, p.y + y)]

reset_position_keeps_x(p) == [x |-> p.x, y |-> 0]

reset_position(p) == [x |-> 0, y |-> 0]

NoCall == [op |-> "none", x |-> 0, y |-> 0, x0 |-> 0, y0 |-> 0, first |-> FALSE]

\* a call of move_by(x, y), recorded in last with the cursor it started from
CallMoveBy(x, y) ==
    /\ result.tag # "panic"
    /\ LET r == move_by(map, pos, max_x, max_y, x, y)
       IN  /\ pos' = r.pos
           /\ result' = r.result
    /\ last' = [op |-> "move_by", x |-> x, y |-> y, x0 |-> pos.x, y0 |-> pos.y,
                first |-> last.op = "none"]
    /\ UNCHANGED << engine, notday03 >>

\* a call of reset_position()
CallResetPosition ==
    /\ result.tag # "panic"
    /\ pos' = reset_position(pos)
    /\ result' = None
    /\ last' = [op |-> "reset_position", x |-> 0, y |-> 0, x0 |-> pos.x,
                y0 |-> pos.y, first |-> last.op = "none"]
    /\ UNCHANGED << engine, notday03 >>

\* the engine right after TobogganMap::from_string_map(text)
Constructed(text) ==
    LET t == from_string_map(text)
    IN  /\ input = text
        /\ map = t.map
        /\ pos = t.pos
        /\ max_x = t.max_x
        /\ max_y = t.max_y
        /\ result = None
        /\ last = NoCall

MainIdle ==
    /\ sweep = 0
    /\ moves = 0
    /\ encountered_trees = 0
    /\ all_tree_counts = << >>
    /\ idx = 0

----------------------------------------------------------------------------
(* Spec: any sequence of move_by and reset_position calls on an engine. *)

DxSet == (-MaxDx..MaxDx) \cup {max_x + 1, -(max_x + 1)}
DySet == -MaxDy..MaxDy

Init ==
    /\ \E text \in FreeInputs : Constructed(text)
    /\ pc = "free"
    /\ MainIdle
    /\ NotDay03Idle

FreeMoveBy ==
    \E x \in DxSet, y \in DySet :
        /\ MoveX(pos.x, x, max_x) \in -MaxAbsX..MaxAbsX
        /\ CallMoveBy(x, y)
        /\ UNCHANGED << pc, mainvars >>

FreeResetPosition ==
    /\ CallResetPosition
    /\ UNCHANGED << pc, mainvars >>

Next == FreeMoveBy \/ FreeResetPosition

Spec == Init /\ [][Next]_vars

----------------------------------------------------------------------------
(* SpecBuild: from_string_map applied to a text, then one lookup at the origin. *)

InitBuild ==
    /\ input \in BuildInputs
    /\ map = << >>
    /\ pos = [x |-> 0, y |-> 0]
    /\ max_x = 0
    /\ max_y = 0
    /\ result = None
    /\ last = NoCall
    /\ pc = "new"
    /\ MainIdle
    /\ NotDay03Idle

Construct ==
    /\ pc = "new"
    /\ LET t == from_string_map(input)
       IN  /\ map' = t.map
           /\ pos' = t.pos
           /\ max_x' = t.max_x
           /\ max_y' = t.max_y
    /\ pc' = "built"
    /\ UNCHANGED << input, result, last, mainvars, notday03 >>

OriginLookup ==
    /\ pc = "built"
    /\ last.op = "none"
    /\ CallMoveBy(0, 0)
    /\ UNCHANGED << pc, mainvars >>

NextBuild == Construct \/ OriginLookup

SpecBuild == InitBuild /\ [][NextBuild]_vars

----------------------------------------------------------------------------
(* SpecMain: main, from the engine it constructs to the answer it prints. *)

\* the arguments of the five move_by loops of main
Slopes ==
    << [x |-> 1, y |-> 1], [x |-> 3, y |-> 1], [x |-> 5, y |-> 1],
       [x |-> 7, y |-> 1], [x |-> 1, y |-> 2] >>

InitMain ==
    /\ \E text \in MainInputs : Constructed(text)
    /\ pc = "sweep"
    /\ sweep = 1
    /\ moves = 0
    /\ encountered_trees = 0
    /\ all_tree_counts = << >>
    /\ idx = 0
    /\ NotDay03Idle

\* one turn of a loop: Ok(val) adds val, Err(_) breaks; a panic ends the program
MainMoveBy ==
    /\ pc = "sweep"
    /\ CallMoveBy(Slopes[sweep].x, Slopes[sweep].y)
    /\ encountered_trees' =
           IF result'.tag = "ok" THEN encountered_trees + result'.val
           ELSE encountered_trees
    /\ moves' = IF result'.tag = "ok" THEN moves + 1 ELSE moves
    /\ pc' = IF result'.tag = "err" THEN "break" ELSE pc
    /\ UNCHANGED << sweep, all_tree_counts, idx >>

\* after a loop: push the count, zero it, reset the cursor, go to the next loop
MainEndSweep ==
    /\ pc = "break"
    /\ all_tree_counts' = Append(all_tree_counts, encountered_trees)
    /\ encountered_trees' = 0
    /\ CallResetPosition
    /\ moves' = 0
    /\ IF sweep < Len(Slopes)
       THEN /\ sweep' = sweep + 1
            /\ pc' = "sweep"
            /\ idx' = idx
       ELSE /\ sweep' = sweep
            /\ pc' = "product"
            /\ idx' = 1

\* the body of the loop that multiplies the counts together
Multiply(acc, count) == IF acc = 0 THEN count ELSE acc * count

MainProduct ==
    /\ pc = "product"
    /\ idx <= Len(all_tree_counts)
    /\ encountered_trees' = Multiply(encountered_trees, all_tree_counts[idx])
    /\ idx' = idx + 1
    /\ UNCHANGED << engine, pos, result, last, pc, sweep, moves, all_tree_counts,
                    notday03 >>

\* the loop is over: the answer is printed
MainPrint ==
    /\ pc = "product"
    /\ idx > Len(all_tree_counts)
    /\ pc' = "done"
    /\ UNCHANGED << engine, pos, result, last, mainvars, notday03 >>

NextMain == MainMoveBy \/ MainEndSweep \/ MainProduct \/ MainPrint

SpecMain == InitMain /\ [][NextMain]_vars

----------------------------------------------------------------------------
(* What the properties below are stated with. *)

Origin == [x |-> 0, y |-> 0]

\* the grid is not empty and every row has max_x + 1 cells
Rectangular ==
    /\ Len(map) >= 1
    /\ \A r \in 1..Len(map) : Len(map[r]) = max_x + 1

Crashed == result.tag = "panic"

\* the last call was move_by, started with the cursor's x inside the grid
MovedFromInside == last.op = "move_by" /\ last.x0 \in 0..max_x

----------------------------------------------------------------------------
\* C1: after move_by(dx, dy) from a cursor with x in [0, max_x], the cursor's x
\* is (x + dx) mod (max_x + 1), the non-negative modulus, whatever the size
\* and sign of dx.
C1_XIsModulus ==
    (Rectangular /\ MovedFromInside) => pos.x = (last.x0 + last.x) % (max_x + 1)

\* C2: on a grid, in every state reached by move_by and reset_position calls
\* the cursor's x lies in [0, max_x], and no lookup of a successful move
\* falls outside the grid.
C2_XStaysInGrid ==
    Rectangular => (pos.x \in 0..max_x /\ ~Crashed)

\* C3: move_by(dx, dy) returns an error exactly when y + dy is outside
\* [0, max_y] and then leaves y alone; otherwise y becomes y + dy and the
\* value returned is the cell at the new (x, y); y stays in [0, max_y].
C3_YBoundDecides ==
    (Rectangular /\ last.op = "move_by") =>
        LET ny == last.y0 + last.y
            inside == ny \in 0..max_y
        IN  /\ (result.tag = "err") <=> ~inside
            /\ ~inside => pos.y = last.y0
            /\ inside =>
                  /\ pos.y = ny
                  /\ pos.x \in 0..max_x
                  /\ result = Ok(map[pos.y + 1][pos.x + 1])
            /\ pos.y \in 0..max_y

\* C8: from a cursor with x in [0, max_x], move_by(max_x + 1, 0) leaves the
\* cursor in the column and the row it was in (so any number of such calls do).
C8_WidthStepKeepsColumn ==
    (MovedFromInside /\ last.x = max_x + 1 /\ last.y = 0) =>
        (pos.x = last.x0 /\ pos.y = last.y0)

\* a step of one width made from the far corner of a 3 x 2 grid, read back
C8_Witness ==
    /\ MovedFromInside /\ last.x = max_x + 1 /\ last.y = 0
    /\ max_x = 2 /\ last.x0 = 2 /\ last.y0 = 1
    /\ result.tag = "ok"

\* C16: a move_by that fails on the vertical bound leaves the whole cursor
\* as it was, x as well as y, whatever dx is (stated here for the steps of
\* at most one width, which move_by wraps as it means to).
C16_FailedMoveKeepsCursor ==
    (/\ Rectangular /\ MovedFromInside
     /\ last.x \in -(max_x + 1)..(max_x + 1)
     /\ result.tag = "err") =>
        (pos.x = last.x0 /\ pos.y = last.y0)

----------------------------------------------------------------------------
(* Properties of main's sweeps (SpecMain). *)

\* the running loop of main has stopped: on the first Err, or on a panic
SweepStopped == pc = "break" \/ (pc = "sweep" /\ Crashed)

\* the moves a sweep of vertical step dy makes on a grid of Len(map) rows
MovesExpected(dy) == (Len(map) - 1) \div dy

\* the trees on the path of slope s: rows k * dy, columns (k * dx) mod width
TreesExpected(s) ==
    Cardinality({ k \in 1..MovesExpected(s.y) :
                    map[k * s.y + 1][((k * s.x) % (max_x + 1)) + 1] = 1 })

AllTrees == \A r \in 1..Len(map) : \A c \in 1..Len(map[r]) : map[r][c] = 1

RECURSIVE Product(_)
Product(counts) ==
    IF counts = << >> THEN 1 ELSE Head(counts) * Product(Tail(counts))

\* C4: on a grid of height H >= 1, a sweep of main stops after exactly
\* floor((H - 1) / dy) successful moves.
C4_SweepLength ==
    (Rectangular /\ SweepStopped) => moves = MovesExpected(Slopes[sweep].y)

\* C5: on the hard-coded sample the sweep of slope (3, 1) counts 7 trees and
\* the answer printed after the five sweeps is 336.
C5_SampleAnswer ==
    input = SampleInput =>
        /\ Len(all_tree_counts) >= 2 => all_tree_counts[2] = 7
        /\ pc = "done" => encountered_trees = 336

\* main has printed its answer for the sample
C5_Witness ==
    /\ input = SampleInput
    /\ pc = "done"
    /\ Len(all_tree_counts) = 5

\* C6: the answer main prints is the product of the five counts, zero counts
\* included.
C6_AnswerIsProduct ==
    (Rectangular /\ pc = "done") => encountered_trees = Product(all_tree_counts)

\* C7: when a sweep of slope (dx, dy) stops, its count is the number of k in
\* 1..floor((H - 1) / dy) with a tree at row k * dy, column (k * dx) mod W; on
\* a grid of trees only that is the number of moves made.
C7_SweepCount ==
    (Rectangular /\ SweepStopped) =>
        /\ encountered_trees = TreesExpected(Slopes[sweep])
        /\ AllTrees => encountered_trees = moves

\* one loop of main run to its end on the engine (m, p, mx, my): the count it
\* pushes, or -1 if a lookup panics on the way
RECURSIVE SweepFrom(_, _, _, _, _, _)
SweepFrom(m, p, mx, my, s, count) ==
    LET r == move_by(m, p, mx, my, s.x, s.y)
    IN  IF r.result.tag = "ok"
        THEN SweepFrom(m, r.pos, mx, my, s, count + r.result.val)
        ELSE IF r.result.tag = "err" THEN count ELSE -1

\* the count of the sweep of slope s on a freshly constructed engine
FreshSweep(s) ==
    LET t == from_string_map(input)
    IN  SweepFrom(t.map, t.pos, t.max_x, t.max_y, s, 0)

\* C9: reset_position() puts the cursor at (0, 0) from whatever state a failed
\* move left, and changes neither the cells nor max_x, max_y; every sweep of
\* main starts at (0, 0), and counts what it would on a fresh engine.
C9_ResetRestoresOrigin ==
    /\ last.op = "reset_position" => pos = Origin
    /\ map = from_string_map(input).map
    /\ max_x = from_string_map(input).max_x
    /\ max_y = from_string_map(input).max_y
    /\ (pc = "sweep" /\ moves = 0 /\ ~Crashed) => pos = Origin
    /\ \A i \in 1..Len(all_tree_counts) : all_tree_counts[i] = FreshSweep(Slopes[i])

\* a reset made after a failed move had left x off the origin, two sweeps
\* done and trees counted in the second
C9_Witness ==
    /\ last.op = "reset_position"
    /\ last.x0 # 0
    /\ Len(all_tree_counts) >= 2
    /\ all_tree_counts[2] > 0

----------------------------------------------------------------------------
(* Properties of from_string_map (SpecBuild). *)

\* the line without the whitespace at its two ends: the one stretch of it
\* that has only whitespace before and after and none at its own ends
Trimmed(line) ==
    CHOOSE t \in { SubSeq(line, i, j) : i \in 1..Len(line) + 1, j \in 0..Len(line) } :
        \E i \in 1..Len(line) + 1, j \in 0..Len(line) :
            /\ t = SubSeq(line, i, j)
            /\ \A k \in 1..Len(line) : (k < i \/ k > j) => line[k] = Space
            /\ t # << >> => (t[1] # Space /\ t[Len(t)] # Space)

\* the column indices seen while building the grid
ColumnsSeen ==
    UNION { 0..Len(Trimmed(input[r])) - 1 : r \in 1..Len(input) }

Largest(S) == CHOOSE n \in S : \A m \in S : m <= n

\* cell (r, c) is 1 iff character c of trimmed line r is '#', else 0
CellsAsRead ==
    /\ Len(map) = Len(input)
    /\ \A r \in 1..Len(input) :
          /\ Len(map[r]) = Len(Trimmed(input[r]))
          /\ \A c \in 1..Len(map[r]) :
                map[r][c] = (IF Trimmed(input[r])[c] = "#" THEN 1 ELSE 0)

HasTopLeft == Len(input) >= 1 /\ Trimmed(input[1]) # << >>

\* move_by(0, 0) as the first call returns the value of the top-left character
OriginReadsTopLeft ==
    (last.op = "move_by" /\ last.first /\ HasTopLeft) =>
        result = Ok(IF Trimmed(input[1])[1] = "#" THEN 1 ELSE 0)

\* C10 as stated: cells as read, the cursor at (0, 0), max_y = lines - 1,
\* max_x = the largest column index seen, the origin reading the top-left.
C10_AsStated ==
    pc = "built" =>
        /\ CellsAsRead
        /\ last.op = "none" => pos = Origin
        /\ max_y = Len(input) - 1
        /\ ColumnsSeen # {} => max_x = Largest(ColumnsSeen)
        /\ OriginReadsTopLeft

\* C10, amended: as stated, but max_y = lines - 1 only for a text of at
\* least one line; for a text without lines max_y is 0.
C10_FromStringMap ==
    pc = "built" =>
        /\ CellsAsRead
        /\ last.op = "none" => pos = Origin
        /\ max_y = (IF Len(input) >= 1 THEN Len(input) - 1 ELSE 0)
        /\ ColumnsSeen # {} => max_x = Largest(ColumnsSeen)
        /\ OriginReadsTopLeft

\* a two-line text with whitespace around a tree in its first line, built
\* and read at the origin
C10_Witness ==
    /\ pc = "built"
    /\ Len(input) = 2
    /\ input[1] # Trimmed(input[1])
    /\ last.op = "move_by" /\ last.first
    /\ result = Ok(1)

----------------------------------------------------------------------------
(* Day 5: string_to_planeseat and get_seat_id (src/day_05/src/main.rs). *)

\* the width of the masks (u8)
U8Bits == 8
\* 0b1111111, the row mask before the first letter
RowMaskInit == 127
\* 0b111, the seat mask before the first letter
SeatMaskInit == 7

Bit(n, k) == (n \div 2^k) % 2

RECURSIVE BitAndFrom(_, _, _)
BitAndFrom(a, b, k) ==
    IF k >= U8Bits THEN 0
    ELSE Bit(a, k) * Bit(b, k) * 2^k + BitAndFrom(a, b, k + 1)

RECURSIVE BitOrFrom(_, _, _)
BitOrFrom(a, b, k) ==
    IF k >= U8Bits THEN 0
    ELSE (IF Bit(a, k) + Bit(b, k) > 0 THEN 2^k ELSE 0) + BitOrFrom(a, b, k + 1)

RECURSIVE BitXorFrom(_, _, _)
BitXorFrom(a, b, k) ==
    IF k >= U8Bits THEN 0
    ELSE ((Bit(a, k) + Bit(b, k)) % 2) * 2^k + BitXorFrom(a, b, k + 1)

\* a & b, a | b, a ^ b on u8
BitAnd(a, b) == BitAndFrom(a, b, 0)
BitOr(a, b) == BitOrFrom(a, b, 0)
BitXor(a, b) == BitXorFrom(a, b, 0)

\* 1 << e on u8 where the build wraps: the shift is taken modulo the width
Shl1(e) == 2^(e % U8Bits)

get_seat_id(row, seat) == row * 8 + seat

ClearBitKeepsIt(mask, all, e) == BitAnd(mask, BitOr(all, Shl1(e)))

\* mask & (all ^ 1 << e): bit e of the mask set to zero
ClearBit(mask, all, e) == BitAnd(mask, BitXor(all, Shl1(e)))

\* mask | (1 << e): bit e of the mask set to one
SetBit(mask, e) == BitOr(mask, Shl1(e))

\* the match on the letter at index i.  6 - i underflows for i > 6 and i - 7
\* for i < 7 (usize): a build with overflow checks panics there, one without
\* goes on with the wrapped value.
MaskStep(c, i, row_mask, seat_mask, checks) ==
    LET rowshift == 6 - i
        seatshift == 2 - (i - 7)
        step(tag, rm, sm) == [tag |-> tag, row_mask |-> rm, seat_mask |-> sm]
    IN  IF c \in {"F", "B"}
        THEN IF i > 6 /\ checks THEN step("panic", row_mask, seat_mask)
             ELSE IF c = "F"
                  THEN step("ok", ClearBit(row_mask, RowMaskInit, rowshift), seat_mask)
                  ELSE step("ok", SetBit(row_mask, rowshift), seat_mask)
        ELSE IF c \in {"L", "R"}
        THEN IF (i < 7 \/ seatshift < 0) /\ checks
             THEN step("panic", row_mask, seat_mask)
             ELSE IF c = "L"
                  THEN step("ok", row_mask, ClearBit(seat_mask, SeatMaskInit, seatshift))
                  ELSE step("ok", row_mask, SetBit(seat_mask, seatshift))
        ELSE step("break", row_mask, seat_mask)

SomeSeat(row, seat, id) == [tag |-> "some", row |-> row, seat |-> seat, id |-> id]
NoSeat == [tag |-> "none", row |-> 0, seat |-> 0, id |-> 0]
SeatPanic == [tag |-> "panic", row |-> 0, seat |-> 0, id |-> 0]

\* the loop over input.chars().enumerate(), from index i on
RECURSIVE DecodeFrom(_, _, _, _, _)
DecodeFrom(code, i, row_mask, seat_mask, checks) ==
    IF i >= Len(code) THEN NoSeat
    ELSE LET st == MaskStep(code[i + 1], i, row_mask, seat_mask, checks)
         IN  IF st.tag = "break" THEN NoSeat
             ELSE IF st.tag = "panic" THEN SeatPanic
             ELSE IF i = 9
                  THEN SomeSeat(st.row_mask, st.seat_mask,
                                get_seat_id(st.row_mask, st.seat_mask))
             ELSE IF i > 9 THEN NoSeat
             ELSE DecodeFrom(code, i + 1, st.row_mask, st.seat_mask, checks)

string_to_planeseat(code, checks) ==
    DecodeFrom(code, 0, RowMaskInit, SeatMaskInit, checks)

\* get_input_test: the four hard-coded codes
SampleCodes ==
    { << "F", "B", "F", "B", "B", "F", "F", "R", "L", "R" >>,
      << "B", "F", "F", "F", "B", "B", "F", "R", "R", "R" >>,
      << "F", "F", "F", "B", "B", "B", "F", "R", "R", "R" >>,
      << "B", "B", "F", "F", "B", "B", "F", "R", "L", "L" >> }

\* every code of seven F or B and three L or R
SeatCodes ==
    { r \o c : r \in [1..7 -> {"F", "B"}], c \in [1..3 -> {"L", "R"}] }

\* codes that are not of that shape: a sample cut short, with one letter
\* replaced, or with one letter more
OtherCodes ==
    LET letters == {"F", "B", "L", "R", "X"}
    IN  UNION { { SubSeq(w, 1, k) : k \in 0..Len(w) - 1 }
                \cup { [w EXCEPT ![k] = c] : k \in 1..Len(w), c \in letters }
                \cup { Append(w, c) : c \in letters } : w \in SampleCodes }

(* SpecDecode: string_to_planeseat applied to a code, in either build. *)

InitDecode ==
    /\ seat_code \in SeatCodes \cup OtherCodes
    /\ overflow_checks \in BOOLEAN
    /\ decoded = NotDecoded
    /\ input_data = << >>
    /\ seat_list = << >>
    /\ scanned = 0
    /\ prev_place = DefaultSeat
    /\ my_place = DefaultSeat
    /\ pc = "decode"
    /\ NotDay05Idle

Decode ==
    /\ pc = "decode"
    /\ decoded' = string_to_planeseat(seat_code, overflow_checks)
    /\ pc' = "decoded"
    /\ UNCHANGED << overflow_checks, seat_code, input_data, seat_list, scanned,
                    prev_place, my_place, notday05 >>

NextDecode == Decode

SpecDecode == InitDecode /\ [][NextDecode]_vars

\* the number a code's letters spell, most significant first, one standing for 1
RECURSIVE BinaryValue(_, _)
BinaryValue(letters, one) ==
    IF letters = << >> THEN 0
    ELSE (IF Head(letters) = one THEN 2^(Len(letters) - 1) ELSE 0)
         + BinaryValue(Tail(letters), one)

WellFormedCode(code) ==
    /\ Len(code) = 10
    /\ \A k \in 1..7 : code[k] \in {"F", "B"}
    /\ \A k \in 8..10 : code[k] \in {"L", "R"}

\* C11: a code of seven F/B and three L/R decodes to Some seat whose row is
\* the 7-bit number of the first letters (F = 0, B = 1), whose seat is the
\* 3-bit number of the last (L = 0, R = 1), and whose id is row * 8 + seat.
C11_DecodesBinary ==
    (pc = "decoded" /\ WellFormedCode(seat_code)) =>
        /\ decoded.tag = "some"
        /\ decoded.row = BinaryValue(SubSeq(seat_code, 1, 7), "B")
        /\ decoded.seat = BinaryValue(SubSeq(seat_code, 8, 10), "R")
        /\ decoded.row \in 0..127
        /\ decoded.seat \in 0..7
        /\ decoded.id = decoded.row * 8 + decoded.seat

\* the first sample, FBFBBFFRLR, decoded: row 44, seat 5, id 357
C11_Witness ==
    /\ pc = "decoded"
    /\ seat_code = << "F", "B", "F", "B", "B", "F", "F", "R", "L", "R" >>
    /\ decoded = SomeSeat(44, 5, 357)

----------------------------------------------------------------------------
(* SpecSeats: main of day 5, from the lines of its input to the seat it prints. *)

\* lines of an input of main
MaxSeatLines == 3
\* largest seat id among the well-formed lines of such an input
MaxSeatId == 6

\* the well-formed codes of the ids 0..MaxSeatId
LowCodes ==
    { code \in SeatCodes :
        BinaryValue(SubSeq(code, 1, 7), "B") * 8
            + BinaryValue(SubSeq(code, 8, 10), "R") <= MaxSeatId }

\* the lines of an input: the codes of the low ids, one of them indented as
\* the hard-coded lines are, and three lines that are no codes (too short, a
\* foreign letter, an F among the last three)
SeatLines ==
    LowCodes
    \cup { Indent \o << "F", "F", "F", "F", "F", "F", "F", "R", "L", "L" >> }
    \cup { << "F", "F", "F", "F", "F", "F", "F", "R", "L" >>,
           << "F", "F", "F", "F", "F", "F", "F", "X", "L", "R" >>,
           << "F", "F", "F", "F", "F", "F", "F", "F", "R", "L" >> }

InitSeats ==
    /\ input_data \in SeqsUpTo(SeatLines, MaxSeatLines)
    /\ overflow_checks \in BOOLEAN
    /\ seat_code = << >>
    /\ decoded = NotDecoded
    /\ seat_list = << >>
    /\ scanned = 0
    /\ prev_place = DefaultSeat
    /\ my_place = DefaultSeat
    /\ pc = "read"
    /\ NotDay05Idle

\* one turn of the loop over input_data.lines(): decode the trimmed line and
\* push the seat, or the default seat for None
ReadLine ==
    /\ pc = "read"
    /\ Len(seat_list) < Len(input_data)
    /\ seat_code' = Trim(input_data[Len(seat_list) + 1])
    /\ decoded' = string_to_planeseat(seat_code', overflow_checks)
    /\ IF decoded'.tag = "panic"
       THEN pc' = "panic" /\ seat_list' = seat_list
       ELSE /\ pc' = pc
            /\ seat_list' = Append(seat_list,
                   IF decoded'.tag = "some"
                   THEN [row |-> decoded'.row, seat |-> decoded'.seat, id |-> decoded'.id]
                   ELSE DefaultSeat)
    /\ UNCHANGED << overflow_checks, input_data, scanned, prev_place, my_place,
                    notday05 >>

\* the orders sort_unstable_by_key(|k| k.id) may leave the list in
SortedByKey(list) ==
    { [i \in 1..Len(list) |-> list[f[i]]] : f \in Permutations(1..Len(list)) }

SortedById(list) ==
    { l \in SortedByKey(list) : \A i \in 1..Len(l) - 1 : l[i].id <= l[i + 1].id }

\* the list is sorted and its first and last ids are taken: unwrap() panics
\* on an empty list
SortSeats ==
    /\ pc = "read"
    /\ Len(seat_list) = Len(input_data)
    /\ IF seat_list = << >>
       THEN pc' = "panic" /\ seat_list' = seat_list
       ELSE pc' = "scan" /\ seat_list' \in SortedById(seat_list)
    /\ UNCHANGED << overflow_checks, seat_code, decoded, input_data, scanned,
                    prev_place, my_place, notday05 >>

\* one turn of the loop over seat_list: a distance of 2 to the previous
\* place gives my_place and ends the loop with the print
ScanPlace ==
    /\ pc = "scan"
    /\ scanned < Len(seat_list)
    /\ LET place == seat_list[scanned + 1]
           distance == place.id - prev_place.id
       IN  IF distance = 2
           THEN /\ my_place' = [row |-> (place.row + prev_place.row) \div 2,
                                seat |-> (place.seat + prev_place.seat) \div 2,
                                id |-> place.id - 1]
                /\ pc' = "done"
                /\ UNCHANGED << prev_place, scanned >>
           ELSE /\ prev_place' = place
                /\ scanned' = scanned + 1
                /\ UNCHANGED << my_place, pc >>
    /\ UNCHANGED << overflow_checks, seat_code, decoded, input_data, seat_list,
                    notday05 >>

\* the loop ran out of places: my_place is printed as it is
PrintSeat ==
    /\ pc = "scan"
    /\ scanned = Len(seat_list)
    /\ pc' = "done"
    /\ UNCHANGED << overflow_checks, day05vars, notday05 >>

NextSeats == ReadLine \/ SortSeats \/ ScanPlace \/ PrintSeat

SpecSeats == InitSeats /\ [][NextSeats]_vars

SeatIds == { seat_list[i].id : i \in 1..Len(seat_list) }

\* the ids missing from the list whose two neighbours are in it
MissingIds ==
    { m \in 1..(MaxSeatId + 8) : m \notin SeatIds /\ m - 1 \in SeatIds /\ m + 1 \in SeatIds }

\* C12: a seat main reports with a non-default id m is missing from the list
\* while m - 1 and m + 1 are in it; and when exactly one id is missing in
\* that way, it is the one reported.
C12_ReportsMissingSeat ==
    (pc = "done" /\ \A i \in 1..Len(input_data) : WellFormedCode(Trim(input_data[i]))) =>
        /\ my_place.id # DefaultSeat.id => my_place.id \in MissingIds
        /\ Cardinality(MissingIds) = 1 => my_place.id \in MissingIds

----------------------------------------------------------------------------
(* Day 2: PassInstance, parse_input, count_valid_passwords                  *)
(* (src/day_02/src/main.rs).                                                *)

Digits == << "0", "1", "2", "3", "4", "5", "6", "7", "8", "9" >>

IsDigit(c) == \E i \in 1..Len(Digits) : Digits[i] = c
DigitValue(c) == (CHOOSE i \in 1..Len(Digits) : Digits[i] = c) - 1

\* the number decimal digits spell; none where another character stands
RECURSIVE ParseDigits(_, _)
ParseDigits(txt, val) ==
    IF txt = << >> THEN [ok |-> TRUE, val |-> val]
    ELSE IF IsDigit(Head(txt))
         THEN ParseDigits(Tail(txt), val * 10 + DigitValue(Head(txt)))
         ELSE [ok |-> FALSE, val |-> 0]

\* str::parse::<u32>: digits after an optional '+'; no number for a string
\* without digits or with another character
ParseU32(txt) ==
    IF txt = << >> THEN [ok |-> FALSE, val |-> 0]
    ELSE IF Head(txt) = "+" /\ Len(txt) > 1 THEN ParseDigits(Tail(txt), 0)
    ELSE ParseDigits(txt, 0)

\* the k-th smallest number of a finite set of numbers
Nth(set, k) == CHOOSE n \in set : Cardinality({ m \in set : m < n }) = k - 1

\* str::split_whitespace: the stretches between whitespace, none of them empty
SplitWhitespace(txt) ==
    LET starts == { i \in 1..Len(txt) :
                      /\ ~IsWhitespace(txt[i])
                      /\ i = 1 \/ IsWhitespace(txt[i - 1]) }
        ends == { i \in 1..Len(txt) :
                      /\ ~IsWhitespace(txt[i])
                      /\ i = Len(txt) \/ IsWhitespace(txt[i + 1]) }
    IN  [k \in 1..Cardinality(starts) |-> SubSeq(txt, Nth(starts, k), Nth(ends, k))]

\* str::split(sep): the stretches between separators, empty ones too
Split(txt, sep) ==
    LET seps == { i \in 1..Len(txt) : txt[i] = sep }
        edges == seps \cup { 0, Len(txt) + 1 }
    IN  [k \in 1..(Cardinality(seps) + 1) |->
            SubSeq(txt, Nth(edges, k) + 1, Nth(edges, k + 1) - 1)]

\* str::replace(c, "")
Remove(txt, c) == SelectSeq(txt, LAMBDA d : d # c)

PassPanic ==
    [tag |-> "panic", required_letter |-> "", pos_1 |-> 0, pos_2 |-> 0,
     password |-> << >>]

\* PassInstance::from_string: indexing parts or charpos past their end, the
\* assert on three parts, unwrap() on no letter and expect() on no number
\* all panic
from_string(txt) ==
    LET parts == SplitWhitespace(txt)
    IN  IF Len(parts) = 0 THEN PassPanic
        ELSE LET charpos == Split(parts[1], "-")
             IN  IF Len(parts) # 3 THEN PassPanic
                 ELSE IF Remove(parts[2], ":") = << >> THEN PassPanic
                 ELSE IF ~ParseU32(charpos[1]).ok THEN PassPanic
                 ELSE IF Len(charpos) < 2 THEN PassPanic
                 ELSE IF ~ParseU32(charpos[2]).ok THEN PassPanic
                 ELSE [tag |-> "ok",
                       required_letter |-> Remove(parts[2], ":")[1],
                       pos_1 |-> ParseU32(charpos[1]).val,
                       pos_2 |-> ParseU32(charpos[2]).val,
                       password |-> parts[3]]

\* password.chars().nth(pos as usize - 1) is Some(required_letter); with
\* pos = 0 the build without overflow checks asks for a place past every
\* password and gets None
LetterAt(inst, position) ==
    /\ position >= 1
    /\ position <= Len(inst.password)
    /\ inst.password[position] = inst.required_letter

\* is_valid: "true", "false", or "panic" where pos - 1 overflows
is_valid(inst, checks) ==
    IF checks /\ (inst.pos_1 = 0 \/ inst.pos_2 = 0) THEN "panic"
    ELSE IF LetterAt(inst, inst.pos_1) # LetterAt(inst, inst.pos_2) THEN "true"
    ELSE "false"

\* count_valid_passwords: the number of valid instances, -1 for a panic
count_valid_passwords(list, checks) ==
    IF \E i \in 1..Len(list) : is_valid(list[i], checks) = "panic" THEN -1
    ELSE Cardinality({ i \in 1..Len(list) : is_valid(list[i], checks) = "true" })

\* largest number in a policy of an enumerated line
MaxPos == 3
\* letters of the password of an enumerated line
MaxPwLen == 3
\* lines of an input
MaxPassLines == 2

PassLetters == {"a", "b"}

\* the line 'lo-hi c: password'
Format(lo, hi, c, pw) ==
    << Digits[lo + 1], "-", Digits[hi + 1], " ", c, ":", " " >> \o pw

\* get_input_test: the three hard-coded lines, the last two indented
SamplePassLines ==
    << << "1", "-", "3", " ", "a", ":", " ", "a", "b", "c", "d", "e" >>,
       Indent \o << "1", "-", "3", " ", "b", ":", " ", "c", "d", "e", "f", "g" >>,
       Indent \o << "2", "-", "9", " ", "c", ":", " ", "c", "c", "c", "c", "c", "c", "c", "c", "c" >> >>

EnumeratedPassLines ==
    { Format(lo, hi, c, pw) : lo \in 0..MaxPos, hi \in 0..MaxPos, c \in PassLetters,
                              pw \in SeqsUpTo(PassLetters, MaxPwLen) }

\* lines that are no 'lo-hi c: password': empty, no dash, no number
OtherPassLines ==
    { << >>, << "1", "3", " ", "a", ":", " ", "a", "b" >>,
      << "a", "-", "3", " ", "a", ":", " ", "a", "b" >> }

SamplePassSet == { SamplePassLines[i] : i \in 1..Len(SamplePassLines) }

\* the texts: nothing, the sample, and one enumerated line followed by
\* sample lines
PassInputs ==
    { << >>, SamplePassLines }
    \cup { << line >> \o rest : line \in EnumeratedPassLines \cup OtherPassLines,
                               rest \in SeqsUpTo(SamplePassSet, MaxPassLines - 1) }

(* SpecPasswords: main of day 2, from the lines get_input returns. *)

InitPasswords ==
    /\ \E text \in PassInputs :
          pass_lines = [i \in 1..Len(text) |-> Trim(text[i])]
    /\ overflow_checks \in BOOLEAN
    /\ output = << >>
    /\ valid_count = 0
    /\ pc = "parse"
    /\ NotDay02Idle

\* one turn of parse_input's loop
ParseLine ==
    /\ pc = "parse"
    /\ Len(output) < Len(pass_lines)
    /\ LET inst == from_string(pass_lines[Len(output) + 1])
       IN  IF inst.tag = "panic"
           THEN pc' = "panic" /\ output' = output
           ELSE pc' = pc /\ output' = Append(output, inst)
    /\ UNCHANGED << overflow_checks, pass_lines, valid_count, notday02 >>

\* count_valid_passwords on the parsed list, and the print
CountValid ==
    /\ pc = "parse"
    /\ Len(output) = Len(pass_lines)
    /\ LET amount == count_valid_passwords(output, overflow_checks)
       IN  IF amount < 0
           THEN pc' = "panic" /\ valid_count' = valid_count
           ELSE pc' = "done" /\ valid_count' = amount
    /\ UNCHANGED << overflow_checks, pass_lines, output, notday02 >>

NextPasswords == ParseLine \/ CountValid

SpecPasswords == InitPasswords /\ [][NextPasswords]_vars

\* a line reads 'lo-hi c: password' with one-digit lo and hi
ReadsAsPolicy(line) ==
    /\ Len(line) >= 8
    /\ IsDigit(line[1]) /\ line[2] = "-" /\ IsDigit(line[3]) /\ line[4] = " "
    /\ line[5] \notin {" ", ":", "-"} /\ line[6] = ":" /\ line[7] = " "
    /\ \A k \in 8..Len(line) : line[k] # " "

\* the letter occurs in the password at least lo and at most hi times
CountInRange(line) ==
    LET n == Cardinality({ k \in 8..Len(line) : line[k] = line[5] })
    IN  DigitValue(line[1]) <= n /\ n <= DigitValue(line[3])

\* C13: a line 'lo-hi c: password' counts as valid iff c occurs in the
\* password at least lo and at most hi times; count_valid_passwords returns
\* the number of such lines, 2 for the three hard-coded lines.
C13_CountsByOccurrences ==
    (pc = "done" /\ \A i \in 1..Len(pass_lines) : ReadsAsPolicy(pass_lines[i])) =>
        /\ valid_count = Cardinality({ i \in 1..Len(pass_lines) : CountInRange(pass_lines[i]) })
        /\ pass_lines = [i \in 1..3 |-> Trim(SamplePassLines[i])] => valid_count = 2

----------------------------------------------------------------------------
(* Day 1: day_01 and main (src/day_01/src/main.rs).                         *)

U32Bits == 32
Target == 2020

HalfRange == 2 ^ (U32Bits \div 2)
ByteRange == 2 ^ (U32Bits \div 4)

\* u32 + u32: the wrapped sum, and whether it overflowed
U32Add(a, b) ==
    LET lo == a[2] + b[2]
        hi == a[1] + b[1] + lo \div HalfRange
    IN  [val |-> U32(hi % HalfRange, lo % HalfRange), over |-> hi >= HalfRange]

\* the four bytes of a u32, lowest first
Bytes(a) ==
    << a[2] % ByteRange, a[2] \div ByteRange, a[1] % ByteRange, a[1] \div ByteRange >>

\* the sum of the byte products of weight ByteRange^k
Column(x, y, k) ==
    LET term(i) == IF k + 2 - i \in 1..4 THEN x[i] * y[k + 2 - i] ELSE 0
    IN  term(1) + term(2) + term(3) + term(4)

\* u32 * u32 by bytes: the wrapped product, and whether it overflowed
U32Mul(a, b) ==
    LET x == Bytes(a)
        y == Bytes(b)
        c0 == Column(x, y, 0)
        c1 == Column(x, y, 1) + c0 \div ByteRange
        c2 == Column(x, y, 2) + c1 \div ByteRange
        c3 == Column(x, y, 3) + c2 \div ByteRange
        high == c3 \div ByteRange + Column(x, y, 4) + Column(x, y, 5) + Column(x, y, 6)
    IN  [val |-> U32((c2 % ByteRange) + ByteRange * (c3 % ByteRange),
                     (c0 % ByteRange) + ByteRange * (c1 % ByteRange)),
         over |-> high > 0]

\* entries of an input list
MaxEntries == 3

\* values the entries are drawn from: halves and parts of 2020, and two
\* whose u32 sum wraps to 2020
EntryValues ==
    { U32(0, n) : n \in { 0, 1000, 1010, 1020, 2020, 2021 } }
    \cup { U32(HalfRange - 1, HalfRange - 1) }

InitDay01 ==
    /\ data \in SeqsUpTo(EntryValues, MaxEntries)
    /\ overflow_checks \in BOOLEAN
    /\ val1_at = 1
    /\ val2_at = 1
    /\ found = NotReturned
    /\ answer = U32(0, 0)
    /\ pc = "search"
    /\ NotDay01Idle

\* the place the iterators take after val2_at
NextPlaces ==
    IF val2_at < Len(data) THEN << val1_at, val2_at + 1 >> ELSE << val1_at + 1, 1 >>

\* one turn of the inner loop: val1 + val2 == 2020 returns the two values
Day01Compare ==
    /\ pc = "search"
    /\ val1_at <= Len(data)
    /\ Len(data) > 0
    /\ LET val1 == data[val1_at]
           val2 == data[val2_at]
       IN  IF overflow_checks /\ U32Add(val1, val2).over
           THEN pc' = "panic" /\ UNCHANGED << val1_at, val2_at, found >>
           ELSE IF U32Add(val1, val2).val = U32(0, Target)
           THEN /\ found' = [tag |-> "returned", val1 |-> val1, val2 |-> val2]
                /\ pc' = "main"
                /\ UNCHANGED << val1_at, val2_at >>
           ELSE /\ val1_at' = NextPlaces[1]
                /\ val2_at' = NextPlaces[2]
                /\ UNCHANGED << pc, found >>
    /\ UNCHANGED << overflow_checks, data, answer, notday01 >>

\* both loops ran out: return (0, 0)
Day01NoPair ==
    /\ pc = "search"
    /\ val1_at > Len(data)
    /\ found' = [tag |-> "returned", val1 |-> U32(0, 0), val2 |-> U32(0, 0)]
    /\ pc' = "main"
    /\ UNCHANGED << overflow_checks, data, val1_at, val2_at, answer, notday01 >>

\* main: assert_eq!(val1 + val2, 2020), answer = val1 * val2, print
Day01Main ==
    /\ pc = "main"
    /\ IF \/ overflow_checks /\ U32Add(found.val1, found.val2).over
          \/ U32Add(found.val1, found.val2).val # U32(0, Target)
          \/ overflow_checks /\ U32Mul(found.val1, found.val2).over
       THEN pc' = "panic" /\ answer' = answer
       ELSE pc' = "done" /\ answer' = U32Mul(found.val1, found.val2).val
    /\ UNCHANGED << overflow_checks, data, val1_at, val2_at, found, notday01 >>

NextDay01 == Day01Compare \/ Day01NoPair \/ Day01Main

SpecDay01 == InitDay01 /\ [][NextDay01]_vars

\* the numbers two u32 stand for sum to 2020
SumIsTarget(a, b) == a[1] + b[1] = 0 /\ a[2] + b[2] = Target

\* the pair is the values of two different entries whose sum is 2020
FromTwoEntries(val1, val2) ==
    \E a, b \in 1..Len(data) :
        a # b /\ data[a] = val1 /\ data[b] = val2 /\ SumIsTarget(val1, val2)

\* C14: for every list, day_01 returns the values of two different entries
\* that sum to 2020 whenever there are such entries, and (0, 0) only when
\* there are none; one entry is never used as both values.
C14_TwoDifferentEntries ==
    found.tag = "returned" =>
        IF found.val1 = U32(0, 0) /\ found.val2 = U32(0, 0)
        THEN ~\E a, b \in 1..Len(data) : a # b /\ SumIsTarget(data[a], data[b])
        ELSE FromTwoEntries(found.val1, found.val2)

----------------------------------------------------------------------------
(* Day 4: Passport and parse_string_to_passports (src/day_04/src/main.rs).  *)

Letters ==
    { "a", "b", "c", "d", "e", "f", "g", "h", "i", "j", "k", "l", "m", "n",
      "o", "p", "q", "r", "s", "t", "u", "v", "w", "x", "y", "z" }

\* char::is_alphabetic, on the characters of the model
IsAlphabetic(c) == c \in Letters

\* a decimal digit that is not one of 0-9: ARABIC-INDIC DIGIT THREE
OtherDigit == "U+0663"

\* \d of the regex crate: any Unicode decimal digit
IsRegexDigit(c) == IsDigit(c) \/ c = OtherDigit

RECURSIVE Flatten(_)
Flatten(seqs) == IF seqs = << >> THEN << >> ELSE Head(seqs) \o Flatten(Tail(seqs))

\* block.split_whitespace(), the block being a sequence of lines
Items(block) == Flatten([i \in 1..Len(block) |-> SplitWhitespace(block[i])])

\* str_to_hashmap: the (key, value) of every item in their order, a later
\* one replacing an earlier one of the same key; kv[1] panics on an item
\* without ':'
str_to_hashmap(block) ==
    LET items == Items(block)
    IN  IF \E i \in 1..Len(items) : Len(Split(items[i], ":")) < 2
        THEN [tag |-> "panic", pairs |-> << >>]
        ELSE [tag |-> "ok",
              pairs |-> [i \in 1..Len(items) |->
                            << Split(items[i], ":")[1], Split(items[i], ":")[2] >>]]

\* fields.get_key_value(key)
get_key_value(fields, key) ==
    LET hits == { i \in 1..Len(fields.pairs) : fields.pairs[i][1] = key }
    IN  IF hits = {} THEN [some |-> FALSE, val |-> << >>]
        ELSE [some |-> TRUE,
              val |-> fields.pairs[CHOOSE i \in hits : \A j \in hits : j <= i][2]]

\* str::parse::<usize>: the grammar of parse::<u32>; the inputs of the model
\* stay far below either width
ParseUsize(txt) == ParseU32(txt)

\* validate_number: "ok" or "err"
validate_number(kv, low, high) ==
    IF ~kv.some THEN "err"
    ELSE IF ~ParseUsize(kv.val).ok THEN "err"
    ELSE IF ParseUsize(kv.val).val < low THEN "err"
    ELSE IF ParseUsize(kv.val).val > high THEN "err"
    ELSE "ok"

\* str::parse::<f32> on a string without letters: an optional sign, digits
\* with at most one '.', at least one digit.  The number is kept as its
\* sign, its whole part and its fraction digits
ParseF32(txt) ==
    LET signed == txt # << >> /\ Head(txt) \in { "+", "-" }
        body == IF signed THEN Tail(txt) ELSE txt
        dots == { i \in 1..Len(body) : body[i] = "." }
        cut == IF dots = {} THEN Len(body) + 1 ELSE CHOOSE i \in dots : TRUE
    IN  IF \/ Cardinality(dots) > 1
           \/ \E i \in 1..Len(body) : ~IsDigit(body[i]) /\ body[i] # "."
           \/ Len(body) - Cardinality(dots) = 0
        THEN [ok |-> FALSE, negative |-> FALSE, whole |-> 0, fraction |-> << >>]
        ELSE [ok |-> TRUE,
              negative |-> signed /\ Head(txt) = "-",
              whole |-> ParseDigits(SubSeq(body, 1, cut - 1), 0).val,
              fraction |-> SubSeq(body, cut + 1, Len(body))]

\* value < bound and value > bound for a bound that is a positive whole
\* number; the fractions of the model's inputs are short enough for f32 to
\* keep them apart from the bounds
F32Less(value, bound) == value.negative \/ value.whole < bound
F32Greater(value, bound) ==
    /\ ~value.negative
    /\ \/ value.whole > bound
       \/ value.whole = bound /\ \E i \in 1..Len(value.fraction) : value.fraction[i] # "0"

\* F32Unit::from_str: the input is split at its first alphabetic character;
\* unwrap() panics where the part before it is no number
F32Unit_from_str(txt) ==
    LET alphabetic == { i \in 1..Len(txt) : IsAlphabetic(txt[i]) }
        splitpoint == IF alphabetic = {} THEN Len(txt) + 1
                      ELSE CHOOSE i \in alphabetic : \A j \in alphabetic : i <= j
        value == ParseF32(SubSeq(txt, 1, splitpoint - 1))
    IN  IF ~value.ok THEN [tag |-> "panic", value |-> value, unit |-> << >>]
        ELSE [tag |-> "ok", value |-> value, unit |-> SubSeq(txt, splitpoint, Len(txt))]

\* validate_height: "ok", "err" or "panic"
validate_height(kv, cm_low, cm_high, in_low, in_high) ==
    IF ~kv.some THEN "err"
    ELSE LET v == F32Unit_from_str(kv.val)
         IN  IF v.tag = "panic" THEN "panic"
             ELSE IF v.unit = << "c", "m" >>
             THEN IF F32Less(v.value, cm_low) \/ F32Greater(v.value, cm_high)
                  THEN "err" ELSE "ok"
             ELSE IF v.unit = << "i", "n" >>
             THEN IF F32Less(v.value, in_low) \/ F32Greater(v.value, in_high)
                  THEN "err" ELSE "ok"
             ELSE "err"

\* validate_haircolor: the regex ^#(\d|[a-f]){6}$
validate_haircolor(kv) ==
    IF ~kv.some THEN "err"
    ELSE IF /\ Len(kv.val) = 7
            /\ kv.val[1] = "#"
            /\ \A i \in 2..7 : \/ IsRegexDigit(kv.val[i])
                               \/ kv.val[i] \in { "a", "b", "c", "d", "e", "f" }
         THEN "ok" ELSE "err"

EyeColors ==
    { << "a", "m", "b" >>, << "b", "l", "u" >>, << "b", "r", "n" >>,
      << "g", "r", "y" >>, << "g", "r", "n" >>, << "h", "z", "l" >>,
      << "o", "t", "h" >> }

\* validate_eyecolor
validate_eyecolor(kv) ==
    IF ~kv.some THEN "err" ELSE IF kv.val \in EyeColors THEN "ok" ELSE "err"

\* validate_id: the regex ^(\d){9}$
validate_id(kv) ==
    IF ~kv.some THEN "err"
    ELSE IF Len(kv.val) = 9 /\ \A i \in 1..9 : IsRegexDigit(kv.val[i])
         THEN "ok" ELSE "err"

\* the first of the results that is not "ok", which is where ? returns or
\* the panic unwinds; "ok" if there is none
RECURSIVE FirstFailure(_)
FirstFailure(results) ==
    IF results = << >> THEN "ok"
    ELSE IF Head(results) # "ok" THEN Head(results)
    ELSE FirstFailure(Tail(results))

\* Passport::from_string: "ok", "err" or "panic"; cid is parsed to a String,
\* which cannot fail
Passport_from_string(block) ==
    LET fields == str_to_hashmap(block)
    IN  IF fields.tag = "panic" THEN "panic"
        ELSE FirstFailure(<<
                validate_number(get_key_value(fields, << "b", "y", "r" >>), 1920, 2002),
                validate_number(get_key_value(fields, << "i", "y", "r" >>), 2010, 2020),
                validate_number(get_key_value(fields, << "e", "y", "r" >>), 2020, 2030),
                validate_height(get_key_value(fields, << "h", "g", "t" >>), 150, 193, 59, 76),
                validate_haircolor(get_key_value(fields, << "h", "c", "l" >>)),
                validate_eyecolor(get_key_value(fields, << "e", "c", "l" >>)),
                validate_id(get_key_value(fields, << "p", "i", "d" >>)) >>)


\* blocks of an input text
MaxBlocks == 2

\* the items of the first block of get_input_test
BaseItems ==
    << << << "e", "c", "l" >>, << "g", "r", "y" >> >>,
       << << "p", "i", "d" >>, << "8", "6", "0", "0", "3", "3", "3", "2", "7" >> >>,
       << << "e", "y", "r" >>, << "2", "0", "2", "0" >> >>,
       << << "h", "c", "l" >>, << "#", "f", "f", "f", "f", "f", "d" >> >>,
       << << "b", "y", "r" >>, << "1", "9", "3", "7" >> >>,
       << << "i", "y", "r" >>, << "2", "0", "1", "7" >> >>,
       << << "c", "i", "d" >>, << "1", "4", "7" >> >>,
       << << "h", "g", "t" >>, << "1", "8", "3", "c", "m" >> >> >>

\* values that take the place of a field's value in BaseItems: bounds of
\* the ranges and their neighbours, extra digits and signs, other units,
\* no number, other lengths and characters, a second ':', nothing
OtherValues ==
    { << << "b", "y", "r" >>, << "1", "9", "2", "0" >> >>,
      << << "b", "y", "r" >>, << "2", "0", "0", "2" >> >>,
      << << "b", "y", "r" >>, << "1", "9", "1", "9" >> >>,
      << << "b", "y", "r" >>, << "2", "0", "0", "3" >> >>,
      << << "b", "y", "r" >>, << "0", "1", "9", "3", "7" >> >>,
      << << "b", "y", "r" >>, << "+", "1", "9", "3", "7" >> >>,
      << << "b", "y", "r" >>, << "1", "9", "3", "a" >> >>,
      << << "b", "y", "r" >>, << >> >>,
      << << "b", "y", "r" >>, << "1", "9", "3", "7", ":", "x" >> >>,
      << << "i", "y", "r" >>, << "2", "0", "1", "0" >> >>,
      << << "i", "y", "r" >>, << "2", "0", "2", "0" >> >>,
      << << "i", "y", "r" >>, << "2", "0", "0", "9" >> >>,
      << << "i", "y", "r" >>, << "2", "0", "2", "1" >> >>,
      << << "i", "y", "r" >>, << "0", "2", "0", "1", "7" >> >>,
      << << "e", "y", "r" >>, << "2", "0", "3", "0" >> >>,
      << << "e", "y", "r" >>, << "2", "0", "1", "9" >> >>,
      << << "e", "y", "r" >>, << "2", "0", "3", "1" >> >>,
      << << "h", "g", "t" >>, << "1", "5", "0", "c", "m" >> >>,
      << << "h", "g", "t" >>, << "1", "9", "3", "c", "m" >> >>,
      << << "h", "g", "t" >>, << "1", "4", "9", "c", "m" >> >>,
      << << "h", "g", "t" >>, << "1", "9", "4", "c", "m" >> >>,
      << << "h", "g", "t" >>, << "5", "9", "i", "n" >> >>,
      << << "h", "g", "t" >>, << "7", "6", "i", "n" >> >>,
      << << "h", "g", "t" >>, << "5", "8", "i", "n" >> >>,
      << << "h", "g", "t" >>, << "7", "7", "i", "n" >> >>,
      << << "h", "g", "t" >>, << "1", "8", "3" >> >>,
      << << "h", "g", "t" >>, << "1", "8", "3", "m", "m" >> >>,
      << << "h", "g", "t" >>, << "1", "5", "0", ".", "5", "c", "m" >> >>,
      << << "h", "g", "t" >>, << "1", "9", "3", ".", "5", "c", "m" >> >>,
      << << "h", "g", "t" >>, << "-", "1", "8", "3", "c", "m" >> >>,
      << << "h", "g", "t" >>, << "c", "m" >> >>,
      << << "h", "g", "t" >>, << >> >>,
      << << "h", "c", "l" >>, << "#", "1", "2", "3", "a", "b", "c" >> >>,
      << << "h", "c", "l" >>, << "1", "2", "3", "a", "b", "c" >> >>,
      << << "h", "c", "l" >>, << "#", "1", "2", "3", "a", "b", "z" >> >>,
      << << "h", "c", "l" >>, << "#", "1", "2", "3", "4", "5" >> >>,
      << << "h", "c", "l" >>, << "#", "1", "2", "3", "4", "5", "6", "7" >> >>,
      << << "h", "c", "l" >>, << "#", "1", "2", "3", "4", "5", "U+0663" >> >>,
      << << "e", "c", "l" >>, << "a", "m", "b" >> >>,
      << << "e", "c", "l" >>, << "o", "t", "h" >> >>,
      << << "e", "c", "l" >>, << "x", "y", "z" >> >>,
      << << "e", "c", "l" >>, << "g", "r", "y", "x" >> >>,
      << << "p", "i", "d" >>, << "0", "0", "0", "0", "0", "0", "0", "0", "1" >> >>,
      << << "p", "i", "d" >>, << "1", "2", "3", "4", "5", "6", "7", "8" >> >>,
      << << "p", "i", "d" >>, << "1", "2", "3", "4", "5", "6", "7", "8", "9", "0" >> >>,
      << << "p", "i", "d" >>, << "8", "6", "0", "0", "3", "3", "3", "2", "a" >> >>,
      << << "p", "i", "d" >>, << "8", "6", "0", "0", "3", "3", "3", "2", "U+0663" >> >>,
      << << "c", "i", "d" >>, << >> >>,
      << << "c", "i", "d" >>, << ":" >> >> }

Item(pair) == pair[1] \o << ":" >> \o pair[2]

RECURSIVE JoinItems(_)
JoinItems(items) ==
    IF items = << >> THEN << >>
    ELSE IF Len(items) = 1 THEN Head(items)
    ELSE Head(items) \o << Space >> \o JoinItems(Tail(items))

\* a block of one line: BaseItems with one value replaced, with one item
\* left out, or with an item added that has no ':'
ItemsWith(pair) ==
    [i \in 1..Len(BaseItems) |->
        Item(IF BaseItems[i][1] = pair[1] THEN pair ELSE BaseItems[i])]

ItemsWithout(n) ==
    [i \in 1..(Len(BaseItems) - 1) |->
        Item(IF i < n THEN BaseItems[i] ELSE BaseItems[i + 1])]

VariedBlocks ==
    { << JoinItems(ItemsWith(pair)) >> : pair \in OtherValues }
    \cup { << JoinItems(ItemsWithout(n)) >> : n \in 1..Len(BaseItems) }
    \cup { << JoinItems(Append(ItemsWith(BaseItems[1]), << "c", "i", "d" >>)) >> }

\* get_input_test: four blocks, the lines after the first indented and the
\* lines between the blocks holding the indentation only
SampleBatch ==
    << << "e", "c", "l", ":", "g", "r", "y", " ", "p", "i", "d", ":", "8", "6", "0", "0", "3", "3", "3", "2", "7", " ", "e", "y", "r", ":", "2", "0", "2", "0", " ", "h", "c", "l", ":", "#", "f", "f", "f", "f", "f", "d" >>,
       Indent \o << "b", "y", "r", ":", "1", "9", "3", "7", " ", "i", "y", "r", ":", "2", "0", "1", "7", " ", "c", "i", "d", ":", "1", "4", "7", " ", "h", "g", "t", ":", "1", "8", "3", "c", "m" >>,
       Indent,
       Indent \o << "i", "y", "r", ":", "2", "0", "1", "3", " ", "e", "c", "l", ":", "a", "m", "b", " ", "c", "i", "d", ":", "3", "5", "0", " ", "e", "y", "r", ":", "2", "0", "2", "3", " ", "p", "i", "d", ":", "0", "2", "8", "0", "4", "8", "8", "8", "4" >>,
       Indent \o << "h", "c", "l", ":", "#", "c", "f", "a", "0", "7", "d", " ", "b", "y", "r", ":", "1", "9", "2", "9" >>,
       Indent,
       Indent \o << "h", "c", "l", ":", "#", "a", "e", "1", "7", "e", "1", " ", "i", "y", "r", ":", "2", "0", "1", "3" >>,
       Indent \o << "e", "y", "r", ":", "2", "0", "2", "4" >>,
       Indent \o << "e", "c", "l", ":", "b", "r", "n", " ", "p", "i", "d", ":", "7", "6", "0", "7", "5", "3", "1", "0", "8", " ", "b", "y", "r", ":", "1", "9", "3", "1" >>,
       Indent \o << "h", "g", "t", ":", "1", "7", "9", "c", "m" >>,
       Indent,
       Indent \o << "h", "c", "l", ":", "#", "c", "f", "a", "0", "7", "d", " ", "e", "y", "r", ":", "2", "0", "2", "5", " ", "p", "i", "d", ":", "1", "6", "6", "5", "5", "9", "6", "4", "8" >>,
       Indent \o << "i", "y", "r", ":", "2", "0", "1", "1", " ", "e", "c", "l", ":", "b", "r", "n", " ", "h", "g", "t", ":", "5", "9", "i", "n" >> >>

\* str is only whitespace
IsBlank(line) == \A i \in 1..Len(line) : IsWhitespace(line[i])

\* re.split(input) with the multi-line regex ^\s*$: the lines between the
\* blank lines.  Where blank lines follow each other or end the text the
\* regex yields blocks of whitespace, which are the empty blocks here
RECURSIVE SplitAtBlank(_, _, _)
SplitAtBlank(lines, block, parts) ==
    IF lines = << >> THEN Append(parts, block)
    ELSE IF IsBlank(Head(lines))
         THEN SplitAtBlank(Tail(lines), << >>, Append(parts, block))
         ELSE SplitAtBlank(Tail(lines), Append(block, Head(lines)), parts)

re_split(lines) == SplitAtBlank(lines, << >>, << >>)

SampleBlocks == { re_split(SampleBatch)[i] : i \in 1..Len(re_split(SampleBatch)) }

RECURSIVE JoinBlocks(_)
JoinBlocks(list) ==
    IF list = << >> THEN << >>
    ELSE IF Len(list) = 1 THEN Head(list)
    ELSE Head(list) \o << Indent >> \o JoinBlocks(Tail(list))

\* the texts: the sample, and a varied block followed by blocks of the sample
PassportInputs ==
    { SampleBatch }
    \cup { JoinBlocks(<< block >> \o rest) :
              block \in VariedBlocks, rest \in SeqsUpTo(SampleBlocks, MaxBlocks - 1) }

(* SpecPassports: main of day 4. *)

InitPassports ==
    /\ batch \in PassportInputs
    /\ blocks = << >>
    /\ passports = << >>
    /\ pc = "split"
    /\ NotDay04Idle

\* parse_string_to_passports: re.split(input)
SplitInput ==
    /\ pc = "split"
    /\ blocks' = re_split(batch)
    /\ pc' = "blocks"
    /\ UNCHANGED << batch, passports, notday04 >>

\* one turn of the loop over the blocks; a kept passport is held as the
\* block it was made from
ParseBlock ==
    /\ pc = "blocks"
    /\ blocks # << >>
    /\ LET made == Passport_from_string(Head(blocks))
       IN  /\ pc' = IF made = "panic" THEN "panic" ELSE pc
           /\ passports' = IF made = "ok" THEN Append(passports, Head(blocks))
                           ELSE passports
           /\ blocks' = IF made = "panic" THEN blocks ELSE Tail(blocks)
    /\ UNCHANGED << batch, notday04 >>

\* main: the print of passports.len()
PrintPassports ==
    /\ pc = "blocks"
    /\ blocks = << >>
    /\ pc' = "done"
    /\ UNCHANGED << batch, blocks, passports, notday04 >>

NextPassports == SplitInput \/ ParseBlock \/ PrintPassports

SpecPassports == InitPassports /\ [][NextPassports]_vars

\* the values a block gives for a key: what follows 'key:' in its items
ValuesOf(block, key) ==
    { SubSeq(Items(block)[i], Len(key) + 2, Len(Items(block)[i])) :
        i \in { n \in 1..Len(Items(block)) :
                  /\ Len(Items(block)[n]) > Len(key)
                  /\ SubSeq(Items(block)[n], 1, Len(key) + 1) = key \o << ":" >> } }

AsciiDigits(txt) == \A i \in 1..Len(txt) : IsDigit(txt[i])

\* the number a string of digits spells
RECURSIVE NumberOf(_)
NumberOf(txt) ==
    IF txt = << >> THEN 0
    ELSE 10 * NumberOf(SubSeq(txt, 1, Len(txt) - 1)) + DigitValue(txt[Len(txt)])

\* four digits; at least low and at most high
FourDigitsWithin(txt, low, high) ==
    Len(txt) = 4 /\ AsciiDigits(txt) /\ NumberOf(txt) >= low /\ NumberOf(txt) <= high

\* digits, or digits '.' digits, standing for a number from low to high
NumberWithin(txt, low, high) ==
    \E n \in 1..Len(txt) :
        LET whole == SubSeq(txt, 1, n)
            rest == SubSeq(txt, n + 1, Len(txt))
        IN  /\ AsciiDigits(whole)
            /\ rest = << >> \/ (Len(rest) > 1 /\ rest[1] = "." /\ AsciiDigits(Tail(rest)))
            /\ NumberOf(whole) >= low
            /\ \/ NumberOf(whole) < high
               \/ NumberOf(whole) = high /\ \A i \in 2..Len(rest) : rest[i] = "0"

\* a number followed by cm (150-193) or in (59-76)
HeightRule(txt) ==
    /\ Len(txt) > 2
    /\ LET number == SubSeq(txt, 1, Len(txt) - 2)
           unit == SubSeq(txt, Len(txt) - 1, Len(txt))
       IN  \/ unit = << "c", "m" >> /\ NumberWithin(number, 150, 193)
           \/ unit = << "i", "n" >> /\ NumberWithin(number, 59, 76)

\* a # followed by exactly six characters 0-9 or a-f
HairRule(txt) ==
    /\ Len(txt) = 7
    /\ txt[1] = "#"
    /\ \A i \in 2..7 : IsDigit(txt[i]) \/ txt[i] \in { "a", "b", "c", "d", "e", "f" }

\* the block has the seven required fields and each follows its rule
Documented(block) ==
    /\ \A key \in { << "b", "y", "r" >>, << "i", "y", "r" >>, << "e", "y", "r" >>,
                    << "h", "g", "t" >>, << "h", "c", "l" >>, << "e", "c", "l" >>,
                    << "p", "i", "d" >> } : ValuesOf(block, key) # { }
    /\ \A v \in ValuesOf(block, << "b", "y", "r" >>) : FourDigitsWithin(v, 1920, 2002)
    /\ \A v \in ValuesOf(block, << "i", "y", "r" >>) : FourDigitsWithin(v, 2010, 2020)
    /\ \A v \in ValuesOf(block, << "e", "y", "r" >>) : FourDigitsWithin(v, 2020, 2030)
    /\ \A v \in ValuesOf(block, << "h", "g", "t" >>) : HeightRule(v)
    /\ \A v \in ValuesOf(block, << "h", "c", "l" >>) : HairRule(v)
    /\ \A v \in ValuesOf(block, << "e", "c", "l" >>) : v \in EyeColors
    /\ \A v \in ValuesOf(block, << "p", "i", "d" >>) : Len(v) = 9 /\ AsciiDigits(v)

\* the blocks the loop has been through
BlocksDone == SubSeq(re_split(batch), 1, Len(re_split(batch)) - Len(blocks))

\* C15: parse_string_to_passports keeps a block iff it has the seven fields
\* byr, iyr, eyr, hgt, hcl, ecl, pid and each follows its documented rule,
\* cid being ignored; every other block is dropped and the run goes on.
C15_KeepsDocumentedBlocks ==
    /\ pc # "panic"
    /\ pc \in { "blocks", "done" } => passports = SelectSeq(BlocksDone, Documented)

====
